---- MODULE Spec2Model ----
(***************************************************************************)
(* Model of the two post-processing scripts of devops-openfoam:            *)
(*   scripts/generate-plots.py   (plot generator, one case)                *)
(*   scripts/generate-report.py  (report generator, one parametric study)  *)
(* Each script is a linear one-shot process.  A script's position is pc,   *)
(* its command line is argv, and the files it reads and writes are the     *)
(* remaining variables.  SpecPlots runs the plot generator, SpecReport the *)
(* report generator, once or several times on one results directory.      *)
(* Numbers read from summary.csv are kept exact: a residual is counted in  *)
(* units of 1e-5 and a value printed with one decimal is counted in tenths.*)
(***************************************************************************)
EXTENDS Integers, Sequences, FiniteSets

VARIABLES
    pc,                \* position of the running script
    argv,              \* sys.argv, program name included
    exitCode,          \* process exit status, Running while the process runs
    trace,             \* the calls made so far, each with what it returned
    \* ---- plot generator ----
    caseDir,           \* [exists, residuals, plotsDir]: the case directory on disk
    plots,             \* files saved under <case_dir>/plots by this run
    reynolds_num,      \* main's local: int(sys.argv[2])
    success_residuals, \* main's local
    success_velocity,  \* main's local
    \* ---- report generator ----
    resultsDir,        \* [exists, summary]: the results directory on disk
    styleAvailable,    \* matplotlib knows the style 'seaborn-v0_8'
    artifacts,         \* [png, html]: what each output file holds (<<>>: no such file)
    written,           \* names of the files written by the current run
    clock,             \* datetime.now(), one tick per run
    lastReport         \* the report a previous run left, <<>> if none

plotVars   == <<caseDir, plots, reynolds_num, success_residuals, success_velocity>>
reportVars == <<resultsDir, styleAvailable, artifacts, written, clock, lastReport>>
vars       == <<pc, argv, exitCode, trace, plotVars, reportVars>>

\* ------------------------------------------------------------------ bounds
MaxArgs     == 3   \* arguments after the program name
MaxRows     == 4   \* rows of a summary table with well-formed residuals
MaxWideRows == 1   \* rows of a summary table with arbitrary residual cells
MaxRuns     == 2   \* runs of the report generator on one results directory

Running == -1

ArgStrings == {"cavity", "100", "400"}

RECURSIVE SeqsUpTo(_, _)
SeqsUpTo(S, n) ==
    IF n = 0 THEN {<<>>}
    ELSE LET shorter == SeqsUpTo(S, n - 1)
         IN  shorter \cup {Append(s, x) : s \in {t \in shorter : Len(t) = n - 1}, x \in S}

Argvs(prog) == {<<prog>> \o a : a \in SeqsUpTo(ArgStrings, MaxArgs)}

Call(op, ret) == [op |-> op, ret |-> ret]
Ops(t) == [i \in 1..Len(t) |-> t[i].op]
Called(op) == \E i \in 1..Len(trace) : trace[i].op = op
Returned(op, ret) == \E i \in 1..Len(trace) : trace[i] = Call(op, ret)

(***************************************************************************)
(*                          generate-plots.py                              *)
(***************************************************************************)

\* int(sys.argv[2]): the number a decimal literal denotes; anything else raises
\* ValueError.
IntParses(s) == s \in {"100", "400"}
IntOf(s) == CASE s = "100" -> 100
              [] s = "400" -> 400

ResidualsPng(n) == <<"residuals_Re", n, ".png">>
VelocityPng(n)  == <<"velocity_profile_Re", n, ".png">>

\* The body of plot_residuals' try block: read_csv and the column assignment
\* raise on a log that is not a 4-column numeric table, savefig raises when the
\* image cannot be written.
ResidualsTryBody(residuals, saveOk) ==
    IF residuals # "valid" THEN [raised |-> TRUE, saved |-> FALSE]
    ELSE IF ~saveOk THEN [raised |-> TRUE, saved |-> FALSE]
    ELSE [raised |-> FALSE, saved |-> TRUE]

PlotResidualsAbsentReturnsTrue(residuals, saveOk) ==
    IF residuals = "absent" THEN [ret |-> TRUE, saved |-> FALSE]
    ELSE LET body == ResidualsTryBody(residuals, saveOk)
         IN  IF body.raised THEN [ret |-> FALSE, saved |-> body.saved]
             ELSE [ret |-> TRUE, saved |-> body.saved]

plot_residuals(residuals, saveOk) ==
    IF residuals = "absent" THEN [ret |-> FALSE, saved |-> FALSE]
    ELSE LET body == ResidualsTryBody(residuals, saveOk)
         IN  IF body.raised THEN [ret |-> FALSE, saved |-> body.saved]
             ELSE [ret |-> TRUE, saved |-> body.saved]

\* plot_velocity_profile reads nothing from the case: only savefig can raise.
plot_velocity_profile(saveOk) ==
    IF ~saveOk THEN [ret |-> FALSE, saved |-> FALSE]
    ELSE [ret |-> TRUE, saved |-> TRUE]

\* main calls plot_velocity_profile after plot_residuals whatever it returned.
AfterResidualsStopOnFailure(ret) == IF ret THEN "velocity" ELSE "finish"

AfterResiduals(ret) == "velocity"

PlotsExitCodeEither(sr, sv) == IF sr \/ sv THEN 0 ELSE 1

PlotsExitCode(sr, sv) == IF sr /\ sv THEN 0 ELSE 1

CaseDirs ==
    {[exists |-> FALSE, residuals |-> "absent", plotsDir |-> FALSE]}
    \cup [exists : {TRUE}, residuals : {"absent", "valid", "malformed"}, plotsDir : BOOLEAN]

ReportIdle ==
    /\ resultsDir = [exists |-> FALSE, summary |-> [kind |-> "absent", rows |-> <<>>]]
    /\ styleAvailable = FALSE
    /\ artifacts = [png |-> <<>>, html |-> <<>>]
    /\ written = {}
    /\ clock = 0
    /\ lastReport = <<>>

InitPlots ==
    /\ pc = "start"
    /\ argv \in Argvs("generate-plots.py")
    /\ exitCode = Running
    /\ trace = <<>>
    /\ caseDir \in CaseDirs
    /\ plots = {}
    /\ reynolds_num = 0
    /\ success_residuals = FALSE
    /\ success_velocity = FALSE
    /\ ReportIdle

\* len(sys.argv) != 3: usage message, sys.exit(1).
PlotsUsage ==
    /\ pc = "start"
    /\ Len(argv) # 3
    /\ pc' = "exited"
    /\ exitCode' = 1
    /\ trace' = Append(trace, Call("usage", FALSE))
    /\ UNCHANGED <<argv, plotVars, reportVars>>

\* reynolds_num = int(sys.argv[2]); an uncaught ValueError ends the process
\* with status 1.
PlotsParseArgs ==
    /\ pc = "start"
    /\ Len(argv) = 3
    /\ IF IntParses(argv[3])
       THEN /\ reynolds_num' = IntOf(argv[3])
            /\ pc' = "mkdir"
            /\ exitCode' = exitCode
       ELSE /\ reynolds_num' = reynolds_num
            /\ pc' = "exited"
            /\ exitCode' = 1
    /\ UNCHANGED <<argv, trace, caseDir, plots, success_residuals, success_velocity, reportVars>>

\* output_dir.mkdir(exist_ok=True): FileNotFoundError when the case directory
\* is missing (no parents=True), uncaught.
PlotsMkdir ==
    /\ pc = "mkdir"
    /\ IF caseDir.exists
       THEN /\ caseDir' = [caseDir EXCEPT !.plotsDir = TRUE]
            /\ pc' = "residuals"
            /\ exitCode' = exitCode
       ELSE /\ caseDir' = caseDir
            /\ pc' = "exited"
            /\ exitCode' = 1
    /\ UNCHANGED <<argv, trace, plots, reynolds_num, success_residuals, success_velocity, reportVars>>

PlotsResiduals ==
    /\ pc = "residuals"
    /\ \E saveOk \in BOOLEAN :
         LET r == plot_residuals(caseDir.residuals, saveOk)
         IN  /\ success_residuals' = r.ret
             /\ plots' = IF r.saved THEN plots \cup {ResidualsPng(reynolds_num)} ELSE plots
             /\ trace' = Append(trace, Call("plot_residuals", r.ret))
             /\ pc' = AfterResiduals(r.ret)
    /\ UNCHANGED <<argv, exitCode, caseDir, reynolds_num, success_velocity, reportVars>>

PlotsVelocity ==
    /\ pc = "velocity"
    /\ \E saveOk \in BOOLEAN :
         LET r == plot_velocity_profile(saveOk)
         IN  /\ success_velocity' = r.ret
             /\ plots' = IF r.saved THEN plots \cup {VelocityPng(reynolds_num)} ELSE plots
             /\ trace' = Append(trace, Call("plot_velocity_profile", r.ret))
    /\ pc' = "finish"
    /\ UNCHANGED <<argv, exitCode, caseDir, reynolds_num, success_residuals, reportVars>>

\* return 0 / return 1, handed to sys.exit.
PlotsFinish ==
    /\ pc = "finish"
    /\ exitCode' = PlotsExitCode(success_residuals, success_velocity)
    /\ pc' = "exited"
    /\ UNCHANGED <<argv, trace, plotVars, reportVars>>

NextPlots ==
    \/ PlotsUsage
    \/ PlotsParseArgs
    \/ PlotsMkdir
    \/ PlotsResiduals
    \/ PlotsVelocity
    \/ PlotsFinish

SpecPlots == InitPlots /\ [][NextPlots]_vars

\* C2: a run of the plot generator with exactly two arguments exits 0 exactly
\* when plot_residuals and plot_velocity_profile both returned success and 1
\* otherwise; with any other argument count it exits 1 after the usage message
\* and attempts neither plot.
C2_ExitCodeIffBothPlots ==
    pc = "exited" =>
        IF Len(argv) = 3
        THEN exitCode = (IF /\ Returned("plot_residuals", TRUE)
                            /\ Returned("plot_velocity_profile", TRUE)
                         THEN 0 ELSE 1)
        ELSE /\ exitCode = 1
             /\ Ops(trace) = <<"usage">>

C2_Witness ==
    /\ pc = "exited"
    /\ Len(argv) = 3
    /\ exitCode = 0
    /\ Returned("plot_residuals", TRUE)
    /\ Returned("plot_velocity_profile", TRUE)

\* C4: plot_residuals hands control back to main whatever happens (no
\* exception leaves it); with the residual log absent it returns False and
\* saves no image; with a log that fails to parse it returns False; it returns
\* True only with residuals_Re<N>.png saved in the output directory.
C4_ResidualsContained ==
    Called("plot_residuals") =>
        /\ ~Called("plot_velocity_profile") => (pc = "velocity" /\ exitCode = Running)
        /\ caseDir.residuals = "absent" =>
               /\ Returned("plot_residuals", FALSE)
               /\ ResidualsPng(reynolds_num) \notin plots
        /\ caseDir.residuals = "malformed" => Returned("plot_residuals", FALSE)
        /\ Returned("plot_residuals", TRUE) => ResidualsPng(reynolds_num) \in plots

C4_Witness ==
    /\ Returned("plot_residuals", FALSE)
    /\ caseDir.residuals = "absent"
    /\ ResidualsPng(reynolds_num) \notin plots
    /\ pc = "velocity"

\* C10: once plot_residuals has been attempted, plot_velocity_profile is
\* attempted after it whatever plot_residuals returned, and never before it;
\* a run can exit 1 with velocity_profile_Re<N>.png written (the witness).
C10_BothPlotsAttemptedInOrder ==
    /\ Called("plot_velocity_profile") =>
           Ops(trace) = <<"plot_residuals", "plot_velocity_profile">>
    /\ (pc \in {"finish", "exited"} /\ Called("plot_residuals")) =>
           Called("plot_velocity_profile")

C10_Witness ==
    /\ pc = "exited"
    /\ exitCode = 1
    /\ Returned("plot_residuals", FALSE)
    /\ Returned("plot_velocity_profile", TRUE)
    /\ VelocityPng(reynolds_num) \in plots
    /\ ResidualsPng(reynolds_num) \notin plots

(***************************************************************************)
(*                          generate-report.py                             *)
(***************************************************************************)

SummaryPng == "parametric_study_summary.png"
ReportHtml == "parametric_study_report.html"

StatusValues   == {"SUCCESS", "FAILED", "CONVERGED_POOR"}
ReynoldsValues == {100, 400}
RuntimeValues  == {10, 25}

\* Texts of a FinalResidual field of summary.csv.
ResidualTexts == {"N/A", "", "NULL", "abc", "0.01", "0.001", "0.0005", "0.0001", "0.00005"}

\* Rows of summary.csv as they stand in the file.
Rows     == [Reynolds : {100}, Status : StatusValues, Runtime : RuntimeValues,
             FinalResidual : {"0.0005"}]
WideRows == [Reynolds : ReynoldsValues, Status : StatusValues, Runtime : RuntimeValues,
             FinalResidual : ResidualTexts]

SummaryFiles ==
    {[kind |-> "absent", rows |-> <<>>], [kind |-> "empty", rows |-> <<>>]}
    \cup [kind : {"csv"}, rows : SeqsUpTo(Rows, MaxRows) \cup SeqsUpTo(WideRows, MaxWideRows)]

\* pandas.read_csv turns a field holding one of its default missing-value
\* markers into NaN and leaves every other text as it is.
NaValues == {"", "#N/A", "N/A", "NA", "NULL", "NaN", "n/a", "nan", "null"}
NaN == [na |-> TRUE, text |-> ""]
ReadCsvCell(raw) == IF raw \in NaValues THEN NaN ELSE [na |-> FALSE, text |-> raw]
read_csv(rows) ==
    [i \in 1..Len(rows) |-> [rows[i] EXCEPT !.FinalResidual = ReadCsvCell(@)]]

\* float(x): NaN stays NaN, a decimal literal gives its value (here in units of
\* 1e-5), any other text raises ValueError.
PoorAbove == 100
GoodAbove == 10
FloatTexts == {"0.01", "0.001", "0.0005", "0.0001", "0.00005"}
FloatValue(text) == CASE text = "0.01"    -> 1000
                      [] text = "0.001"   -> 100
                      [] text = "0.0005"  -> 50
                      [] text = "0.0001"  -> 10
                      [] text = "0.00005" -> 5
PyFloat(cell) ==
    IF cell.na THEN [ok |-> TRUE, nan |-> TRUE, v |-> 0]
    ELSE IF cell.text \in FloatTexts
         THEN [ok |-> TRUE, nan |-> FALSE, v |-> FloatValue(cell.text)]
         ELSE [ok |-> FALSE, nan |-> FALSE, v |-> 0]
\* x > threshold; every comparison with NaN is False.
Greater(f, threshold) == ~f.nan /\ f.v > threshold

\* row['FinalResidual'] != 'N/A'
IsNotSentinel(cell) == ~(~cell.na /\ cell.text = "N/A")

convergence_quality(cell) ==
    IF IsNotSentinel(cell)
    THEN LET f == PyFloat(cell)
         IN  IF ~f.ok THEN "Unknown"
             ELSE IF Greater(f, PoorAbove) THEN "Poor"
             ELSE IF Greater(f, GoodAbove) THEN "Good"
             ELSE "Excellent"
    ELSE "Excellent"

StatusClassPoorIsFailed(status) ==
    IF status = "SUCCESS" THEN "success" ELSE "failed"

status_class(status) ==
    IF status = "SUCCESS" THEN "success"
    ELSE IF status = "FAILED" THEN "failed"
    ELSE "warning"

\* str() of a cell as the f-string prints it.
CellText(cell) == IF cell.na THEN "nan" ELSE cell.text

TableRow(row) ==
    [Reynolds            |-> row.Reynolds,
     status_class        |-> status_class(row.Status),
     Status              |-> row.Status,
     Runtime             |-> row.Runtime,
     FinalResidual       |-> CellText(row.FinalResidual),
     convergence_quality |-> convergence_quality(row.FinalResidual)]

\* for _, row in df.iterrows(): html_content += ...
TableRows(df) == [i \in 1..Len(df) |-> TableRow(df[i])]

\* f"{x:.1f}" of the fraction num/den, in tenths: the nearest tenth, a tie
\* going to the even one.
FormatOneDecimal(num, den) ==
    LET n == 10 * num
        q == n \div den
        r == n % den
    IN  IF 2 * r < den THEN q
        ELSE IF 2 * r > den THEN q + 1
        ELSE IF q % 2 = 0 THEN q ELSE q + 1

IsSuccess(row) == row.Status = "SUCCESS"

RECURSIVE SumRuntime(_)
SumRuntime(df) == IF df = <<>> THEN 0 ELSE Head(df).Runtime + SumRuntime(Tail(df))

successful_cases(df) == Len(SelectSeq(df, IsSuccess))

SuccessRateAsFraction(successful, total) ==
    IF total > 0 THEN FormatOneDecimal(successful, total) ELSE 0

success_rate(successful, total) ==
    IF total > 0 THEN FormatOneDecimal(successful * 100, total) ELSE 0

AvgRuntimeOverAllRows(df) ==
    IF SelectSeq(df, IsSuccess) # <<>> THEN FormatOneDecimal(SumRuntime(df), Len(df)) ELSE 0

avg_runtime(df) ==
    LET successful_df == SelectSeq(df, IsSuccess)
    IN  IF successful_df # <<>>
        THEN FormatOneDecimal(SumRuntime(successful_df), Len(successful_df))
        ELSE 0

HtmlContent(df, now) ==
    [timestamp        |-> now,
     total_cases      |-> Len(df),
     success_rate     |-> success_rate(successful_cases(df), Len(df)),
     successful_cases |-> successful_cases(df),
     avg_runtime      |-> avg_runtime(df),
     table            |-> TableRows(df)]

CountStatus(df, status) == Cardinality({i \in 1..Len(df) : df[i].Status = status})

performance_data(df) ==
    [Total |-> Len(df), Successful |-> CountStatus(df, "SUCCESS"),
     Failed |-> CountStatus(df, "FAILED"), Poor |-> CountStatus(df, "CONVERGED_POOR")]

\* open(path, 'w') / savefig: the file holds what this call wrote and nothing
\* else.
AppendFile(old, doc) == Append(old, doc)

WriteFile(old, doc) == <<doc>>

\* generate_summary_plots: returns early without the summary file; read_csv
\* raises EmptyDataError on a file with no header line and plt.style.use
\* raises OSError for a style matplotlib does not ship; nothing catches either.
generate_summary_plots(summary, style) ==
    IF summary.kind = "absent" THEN [raised |-> FALSE, wrote |-> FALSE]
    ELSE IF summary.kind = "empty" THEN [raised |-> TRUE, wrote |-> FALSE]
    ELSE IF ~style THEN [raised |-> TRUE, wrote |-> FALSE]
    ELSE [raised |-> FALSE, wrote |-> TRUE]

\* generate_html_report: returns early without the summary file; read_csv
\* raises as above.
generate_html_report(summary) ==
    IF summary.kind = "absent" THEN [raised |-> FALSE, wrote |-> FALSE]
    ELSE IF summary.kind = "empty" THEN [raised |-> TRUE, wrote |-> FALSE]
    ELSE [raised |-> FALSE, wrote |-> TRUE]

ResultsDirs ==
    {[exists |-> FALSE, summary |-> [kind |-> "absent", rows |-> <<>>]]}
    \cup [exists : {TRUE}, summary : SummaryFiles]

PlotsIdle ==
    /\ caseDir = [exists |-> FALSE, residuals |-> "absent", plotsDir |-> FALSE]
    /\ plots = {}
    /\ reynolds_num = 0
    /\ success_residuals = FALSE
    /\ success_velocity = FALSE

InitReport ==
    /\ pc = "start"
    /\ argv \in {<<"generate-report.py">> \o a : a \in SeqsUpTo({"results"}, MaxArgs)}
    /\ exitCode = Running
    /\ trace = <<>>
    /\ resultsDir \in ResultsDirs
    /\ Len(argv) = 2 \/ resultsDir.summary.kind = "absent"
    /\ styleAvailable \in BOOLEAN
    /\ artifacts = [png |-> <<>>, html |-> <<>>]
    /\ written = {}
    /\ clock = 1
    /\ lastReport = <<>>
    /\ PlotsIdle

\* len(sys.argv) != 2: usage message, sys.exit(1).
ReportUsage ==
    /\ pc = "start"
    /\ Len(argv) # 2
    /\ pc' = "exited"
    /\ exitCode' = 1
    /\ trace' = Append(trace, Call("usage", FALSE))
    /\ UNCHANGED <<argv, plotVars, reportVars>>

\* not Path(results_dir).exists(): error message, sys.exit(1).
ReportNoDir ==
    /\ pc = "start"
    /\ Len(argv) = 2
    /\ ~resultsDir.exists
    /\ pc' = "exited"
    /\ exitCode' = 1
    /\ UNCHANGED <<argv, trace, plotVars, reportVars>>

ReportValidated ==
    /\ pc = "start"
    /\ Len(argv) = 2
    /\ resultsDir.exists
    /\ pc' = "summary_plots"
    /\ UNCHANGED <<argv, exitCode, trace, plotVars, reportVars>>

\* generate_summary_plots(results_dir); an exception it raises is caught
\* nowhere and ends the process with status 1.
ReportSummaryPlots ==
    /\ pc = "summary_plots"
    /\ LET r  == generate_summary_plots(resultsDir.summary, styleAvailable)
           df == read_csv(resultsDir.summary.rows)
       IN  /\ trace' = Append(trace, Call("generate_summary_plots", r.wrote))
           /\ artifacts' = IF r.wrote
                           THEN [artifacts EXCEPT !.png = WriteFile(@, performance_data(df))]
                           ELSE artifacts
           /\ written' = IF r.wrote THEN written \cup {SummaryPng} ELSE written
           /\ pc' = IF r.raised THEN "exited" ELSE "html_report"
           /\ exitCode' = IF r.raised THEN 1 ELSE exitCode
    /\ UNCHANGED <<argv, plotVars, resultsDir, styleAvailable, clock, lastReport>>

\* generate_html_report(results_dir)
ReportHtmlReport ==
    /\ pc = "html_report"
    /\ LET r  == generate_html_report(resultsDir.summary)
           df == read_csv(resultsDir.summary.rows)
       IN  /\ trace' = Append(trace, Call("generate_html_report", r.wrote))
           /\ artifacts' = IF r.wrote
                           THEN [artifacts EXCEPT !.html = WriteFile(@, HtmlContent(df, clock))]
                           ELSE artifacts
           /\ written' = IF r.wrote THEN written \cup {ReportHtml} ELSE written
           /\ pc' = IF r.raised THEN "exited" ELSE "finish"
           /\ exitCode' = IF r.raised THEN 1 ELSE exitCode
    /\ UNCHANGED <<argv, plotVars, resultsDir, styleAvailable, clock, lastReport>>

\* main prints its closing messages and returns: the process exits 0.
ReportFinish ==
    /\ pc = "finish"
    /\ pc' = "exited"
    /\ exitCode' = 0
    /\ UNCHANGED <<argv, trace, plotVars, reportVars>>

\* The script is run again on the same results directory.
ReportRerun ==
    /\ pc = "exited"
    /\ clock < MaxRuns
    /\ pc' = "start"
    /\ exitCode' = Running
    /\ trace' = <<>>
    /\ written' = {}
    /\ clock' = clock + 1
    /\ lastReport' = artifacts.html
    /\ UNCHANGED <<argv, plotVars, resultsDir, styleAvailable, artifacts>>

NextReport ==
    \/ ReportUsage
    \/ ReportNoDir
    \/ ReportValidated
    \/ ReportSummaryPlots
    \/ ReportHtmlReport
    \/ ReportFinish
    \/ ReportRerun

SpecReport == InitReport /\ [][NextReport]_vars

\* ------------------------------------------------------------ report claims

Abs(x) == IF x < 0 THEN 0 - x ELSE x

SummaryRows == resultsDir.summary.rows
SuccessRowIds == {i \in 1..Len(SummaryRows) : SummaryRows[i].Status = "SUCCESS"}

RECURSIVE RuntimeOver(_)
RuntimeOver(ids) ==
    IF ids = {} THEN 0
    ELSE LET i == CHOOSE j \in ids : TRUE
         IN  SummaryRows[i].Runtime + RuntimeOver(ids \ {i})

ReportWritten == ReportHtml \in written
Report == artifacts.html[Len(artifacts.html)]
WithoutTimestamp(doc) ==
    [total_cases |-> doc.total_cases, success_rate |-> doc.success_rate,
     successful_cases |-> doc.successful_cases, avg_runtime |-> doc.avg_runtime,
     table |-> doc.table]

\* C1: with the results directory present and no summary.csv in it, a run of
\* the report generator ends with a nonzero exit code and has written neither
\* parametric_study_summary.png nor parametric_study_report.html.
C1_MissingSummaryIsFatal ==
    (/\ pc = "exited"
     /\ Len(argv) = 2
     /\ resultsDir.exists
     /\ resultsDir.summary.kind = "absent")
    => (exitCode # 0 /\ written = {})

\* C3: the convergence-quality label of every table row is decided by the
\* FinalResidual field of summary.csv: "N/A" gives Excellent; a text that
\* parses as a number gives Poor above 1e-3, Good above 1e-4 up to 1e-3,
\* Excellent up to 1e-4; a text that does not parse gives Unknown.
C3_QualityOfResidual ==
    ReportWritten =>
        \A i \in 1..Len(SummaryRows) :
            LET text  == SummaryRows[i].FinalResidual
                label == Report.table[i].convergence_quality
            IN  label = (IF text = "N/A" THEN "Excellent"
                         ELSE IF text \in FloatTexts
                              THEN (IF FloatValue(text) > PoorAbove THEN "Poor"
                                    ELSE IF FloatValue(text) > GoodAbove THEN "Good"
                                    ELSE "Excellent")
                              ELSE "Unknown")

\* C5: the reported success rate is 100 * (rows with Status SUCCESS) / (rows),
\* to the one decimal printed, when the summary has a row (3 of 4 gives 75.0)
\* and 0 when it has none; it lies between 0 and 100.
C5_SuccessRate ==
    ReportWritten =>
        LET total == Len(SummaryRows)
            succ  == Cardinality(SuccessRowIds)
            rate  == Report.success_rate
        IN  /\ total > 0 => 2 * Abs(rate * total - 1000 * succ) <= total
            /\ total = 0 => rate = 0
            /\ (total = 4 /\ succ = 3) => rate = 750
            /\ 0 <= rate /\ rate <= 1000

C5_Witness ==
    /\ ReportWritten
    /\ Len(SummaryRows) = 4
    /\ Cardinality(SuccessRowIds) = 3
    /\ Report.success_rate = 750

\* C6: the reported average runtime is the mean of Runtime over exactly the
\* rows with Status SUCCESS, to the one decimal printed, and 0 when no row has
\* Status SUCCESS.
C6_AvgRuntimeOverSuccess ==
    ReportWritten =>
        LET n   == Cardinality(SuccessRowIds)
            sum == RuntimeOver(SuccessRowIds)
            avg == Report.avg_runtime
        IN  /\ n > 0 => 2 * Abs(avg * n - 10 * sum) <= n
            /\ n = 0 => avg = 0

C6_Witness ==
    /\ ReportWritten
    /\ Len(SummaryRows) = 3
    /\ SummaryRows[1].Status = "SUCCESS" /\ SummaryRows[1].Runtime = 10
    /\ SummaryRows[2].Status = "FAILED" /\ SummaryRows[2].Runtime = 25
    /\ SummaryRows[3].Status = "CONVERGED_POOR" /\ SummaryRows[3].Runtime = 25
    /\ Report.avg_runtime = 100

\* C7: with a wrong argument count or a missing results directory the report
\* generator exits 1 and starts neither generate_summary_plots nor
\* generate_html_report; with the results directory present it attempts
\* generate_summary_plots and then generate_html_report, and a failure inside
\* generate_summary_plots neither stops generate_html_report from being
\* attempted nor changes the exit code.
C7_ValidateThenBothSteps ==
    pc = "exited" =>
        IF Len(argv) # 2 \/ ~resultsDir.exists
        THEN /\ exitCode = 1
             /\ ~Called("generate_summary_plots")
             /\ ~Called("generate_html_report")
        ELSE /\ Ops(trace) = <<"generate_summary_plots", "generate_html_report">>
             /\ exitCode = 0

\* C8: the results table has exactly one row per summary row, in the order of
\* the input, and a row's style class is success for SUCCESS, failed for
\* FAILED and warning for every other status.
C8_TableRowsInOrder ==
    ReportWritten =>
        /\ Len(Report.table) = Len(SummaryRows)
        /\ \A i \in 1..Len(SummaryRows) :
               LET in  == SummaryRows[i]
                   out == Report.table[i]
               IN  /\ out.Reynolds = in.Reynolds
                   /\ out.Status = in.Status
                   /\ out.Runtime = in.Runtime
                   /\ out.status_class = (CASE in.Status = "SUCCESS" -> "success"
                                            [] in.Status = "FAILED"  -> "failed"
                                            [] OTHER                 -> "warning")

C8_Witness ==
    /\ ReportWritten
    /\ Len(Report.table) = 3
    /\ SummaryRows[1].Status = "CONVERGED_POOR" /\ Report.table[1].status_class = "warning"
    /\ SummaryRows[2].Status = "SUCCESS" /\ Report.table[2].status_class = "success"
    /\ SummaryRows[3].Status = "FAILED" /\ Report.table[3].status_class = "failed"
    /\ SummaryRows[1].Runtime # SummaryRows[2].Runtime

\* C9: a second run on the unchanged summary table leaves a report with the
\* same headline metrics and the same table as the first run's, only the
\* timestamp differing, and the report file holds the second run's output
\* alone.
C9_RerunIdempotent ==
    (ReportWritten /\ lastReport # <<>>) =>
        /\ artifacts.html = <<Report>>
        /\ WithoutTimestamp(Report) = WithoutTimestamp(lastReport[Len(lastReport)])

C9_Witness ==
    /\ ReportWritten
    /\ lastReport # <<>>
    /\ clock = 2
    /\ Len(SummaryRows) = 2
    /\ Report.timestamp # lastReport[1].timestamp
    /\ Report.table = lastReport[1].table
    /\ pc = "exited"
    /\ exitCode = 0

====
